---- MODULE Spec2Model ----
(***************************************************************************)
(* A model of the graphflow package (FUTRLI/graphflow): the Graphflow      *)
(* builder (AddTask, AddPath, NewTaskGroup, AddTasks), the validator       *)
(* (validateTasks), the traversal (Run / execute) and the example tasks    *)
(* that are plugged into it.                                               *)
(***************************************************************************)
EXTENDS Integers, Sequences, FiniteSets, TLC

VARIABLES
    tasks,       \* gf.tasks: the registered node list, in AddTask order
    taskGroups,  \* gf.taskGroups: sequence of TaskGroup objects [name, tasks]
    paths,       \* gf.paths: map from task to map from PathCondition to task
    context,     \* gf.context: the stored *ExecutionContext (0 is nil)
    executed,    \* gf.executed: the set of keys of the map (all values true)
    values,      \* the ExecutionContext objects: values[c] is ctx.values of c
    exitPath,    \* Task.exitPath of every task object
    pc,          \* position of the Run call: "idle" or "loop"
    q,           \* q.tasks, the local taskQueue of execute()
    visited,     \* the local visited map of execute() (set of its keys)
    err,         \* what the most recent Run returned
    log,         \* the tasks whose Execute was invoked by the most recent Run
    hist,        \* one record per Run call: its arguments and its outcome
    script,      \* position of the caller inside buildGraphflow()
    added,       \* the AddPath calls a recording caller has made, in order
    calls,       \* its AddTask calls, in order: the argument and the result
    sets,        \* its ExecutionContext.Set calls: << context, key, value >>
    render,      \* the RenderPathThroughGraph call: its state and result
    other        \* a Run called from a second goroutine: its ctx and locals

vars == << tasks, taskGroups, paths, context, executed, values, exitPath,
           pc, q, visited, err, log, hist, script, added, calls, sets, render,
           other >>

graph == << tasks, taskGroups, paths >>

\* GetContext(): the stored context
GetContext == context

\* Executed(): the stored visited map
Executed == executed

----------------------------------------------------------------------------
(* PathCondition *)

ALWAYS == 0
YES == 1
NO == 2
ERROR == 3

PathCondition == {ALWAYS, YES, NO, ERROR}

----------------------------------------------------------------------------
(* Bounds of the model *)

MaxTasks == 2
MaxPaths == 2
MaxContexts == 2
MaxRuns == 2
MaxGroups == 2
MaxGroupTasks == 2

----------------------------------------------------------------------------
(* The task objects.  A task is identified by its reference; its type      *)
(* decides what Execute and String do.                                     *)

AllTasks == {"start", "start2", "end", "end2", "cloudy", "rain", "sun", "fog"}

\* The tasks the callers of Spec and SpecGroups build graphs from.
BuildTasks == {"start", "cloudy", "end"}
\* The targets of the paths they add.
PathTargets == {"cloudy", "end"}

\* the tasks of type *StartTask and of type *EndTask
StartTasks == {"start", "start2"}
EndTasks == {"end", "end2"}
IsStartTask(t) == t \in StartTasks
IsEndTask(t) == t \in EndTasks

NoTask == "nil"
NilContext == 0
Nil == "nil"

\* error values: nil, or an error with the text that tells the errors apart
Error(k, t) == [kind |-> k, task |-> t, group |-> "", other |-> ""]
NoError == Error("nil", NoTask)
\* not error values: the markers of "no Run yet" and "Run has not returned"
NotRun == Error("not run", NoTask)
Running == Error("running", NoTask)

----------------------------------------------------------------------------
(* ExecutionContext *)

EmptyMap == [k \in {} |-> Nil]

Get(vals, v) == IF v \in DOMAIN vals THEN vals[v] ELSE Nil

\* Set that makes a new map of values on every call
Set_NewMap(vals, key, value) == [k \in {key} |-> value]

Set(vals, key, value) ==
    [k \in DOMAIN vals \cup {key} |-> IF k = key THEN value ELSE vals[k]]

----------------------------------------------------------------------------
(* Execute of every task type: the new values of the context, the new exit *)
(* path of the task and the error it returns.                              *)

ExecResult(vals, ep, e) == [values |-> vals, exitPath |-> ep, err |-> e]

IsTheSkyCloudyExecute(t, vals, ep) ==
    LET sky == Get(vals, "Sky") IN
    IF sky = Nil
    THEN ExecResult(vals, ep, Error("Failed to retrieve Sky", t))
    ELSE IF sky = "Cloudy"
         THEN ExecResult(vals, YES, NoError)
         ELSE ExecResult(vals, NO, NoError)

ForecastExecute(t, vals, ep, forecast) ==
    ExecResult(Set(vals, "Forecast", forecast), ep, NoError)

TaskExecute(t, vals, ep) == ExecResult(vals, ep, NoError)

Execute(t, vals, ep) ==
    CASE t = "cloudy" -> IsTheSkyCloudyExecute(t, vals, ep)
      [] t = "rain"   -> ForecastExecute(t, vals, ep, "Rain")
      [] t = "sun"    -> ForecastExecute(t, vals, ep, "Sun")
      [] t = "fog"    -> ForecastExecute(t, vals, ep, "Fog")
      [] OTHER        -> TaskExecute(t, vals, ep)

----------------------------------------------------------------------------
(* Lookups and validation *)

\* The first position of s that holds a task of `kind`, 0 when none does.
FirstIndex(s, kind) ==
    IF \E i \in DOMAIN s : s[i] \in kind
    THEN CHOOSE i \in DOMAIN s :
             s[i] \in kind /\ \A j \in 1..(i - 1) : s[j] \notin kind
    ELSE 0

\* findStartTask that falls back to the first registered task
findStartTask_FirstTask ==
    LET i == FirstIndex(tasks, StartTasks) IN
    IF i # 0
    THEN [task |-> tasks[i], err |-> NoError]
    ELSE [task |-> tasks[1], err |-> NoError]

\* findStartTask that keeps the last StartTask of gf.tasks
findStartTask_LastStart ==
    LET starts == {i \in DOMAIN tasks : tasks[i] \in StartTasks} IN
    IF starts # {}
    THEN [task |-> tasks[CHOOSE i \in starts : \A j \in starts : j <= i],
          err |-> NoError]
    ELSE [task |-> NoTask, err |-> Error("Workflow needs to contain a task of type StartTask", NoTask)]

findStartTask ==
    LET i == FirstIndex(tasks, StartTasks) IN
    IF i # 0
    THEN [task |-> tasks[i], err |-> NoError]
    ELSE [task |-> NoTask, err |-> Error("Workflow needs to contain a task of type StartTask", NoTask)]

\* findEndTask that returns no error when it finds no EndTask
findEndTask_NoError ==
    LET i == FirstIndex(tasks, EndTasks) IN
    IF i # 0
    THEN [task |-> tasks[i], err |-> NoError]
    ELSE [task |-> NoTask, err |-> NoError]

findEndTask ==
    LET i == FirstIndex(tasks, EndTasks) IN
    IF i # 0
    THEN [task |-> tasks[i], err |-> NoError]
    ELSE [task |-> NoTask, err |-> Error("Workflow needs to contain a task of type EndTask", NoTask)]

contains(conditions, condition) == condition \in conditions

\* pathErrors without the check of ALWAYS together with NO
pathErrors_NoAlwaysNo(task) ==
    LET conditions == DOMAIN paths[task] IN
    IF contains(conditions, ALWAYS)
    THEN IF contains(conditions, YES)
         THEN {Error("cannot have an ALWAYS path as well as a YES path", task)}
         ELSE {}
    ELSE IF contains(conditions, YES)
         THEN IF ~contains(conditions, NO)
              THEN {Error("has as a YES path but no NO path", task)}
              ELSE {}
         ELSE IF contains(conditions, NO)
              THEN IF ~contains(conditions, YES)
                   THEN {Error("has as a NO path but no YES path", task)}
                   ELSE {}
              ELSE {}

\* pathErrors without the check of NO without YES
pathErrors_NoNoWithoutYes(task) ==
    LET conditions == DOMAIN paths[task] IN
    IF contains(conditions, ALWAYS)
    THEN IF contains(conditions, YES)
         THEN {Error("cannot have an ALWAYS path as well as a YES path", task)}
         ELSE IF contains(conditions, NO)
              THEN {Error("cannot have an ALWAYS path as well as a NO path", task)}
              ELSE {}
    ELSE IF contains(conditions, YES)
         THEN IF ~contains(conditions, NO)
              THEN {Error("has as a YES path but no NO path", task)}
              ELSE {}
         ELSE {}

\* The check of one key of gf.paths: the set holding its error, or {}.
pathErrors(task) ==
    LET conditions == DOMAIN paths[task] IN
    IF contains(conditions, ALWAYS)
    THEN IF contains(conditions, YES)
         THEN {Error("cannot have an ALWAYS path as well as a YES path", task)}
         ELSE IF contains(conditions, NO)
              THEN {Error("cannot have an ALWAYS path as well as a NO path", task)}
              ELSE {}
    ELSE IF contains(conditions, YES)
         THEN IF ~contains(conditions, NO)
              THEN {Error("has as a YES path but no NO path", task)}
              ELSE {}
         ELSE IF contains(conditions, NO)
              THEN IF ~contains(conditions, YES)
                   THEN {Error("has as a NO path but no YES path", task)}
                   ELSE {}
              ELSE {}

\* groupClashes that tells the groups apart by name, not by reference
groupClashes_ByName ==
    { p \in (DOMAIN taskGroups) \X (1..MaxGroupTasks)
              \X (DOMAIN taskGroups) \X (1..MaxGroupTasks) :
        /\ taskGroups[p[1]].name # taskGroups[p[3]].name
        /\ p[2] \in DOMAIN taskGroups[p[1]].tasks
        /\ p[4] \in DOMAIN taskGroups[p[3]].tasks
        /\ taskGroups[p[1]].tasks[p[2]] = taskGroups[p[3]].tasks[p[4]] }

\* groupClashes without `if taskGroup == otherTaskGroup { continue }`: a
\* task is also compared with the other entries of its own group
groupClashes_SameGroup ==
    { p \in (DOMAIN taskGroups) \X (1..MaxGroupTasks)
              \X (DOMAIN taskGroups) \X (1..MaxGroupTasks) :
        /\ << p[1], p[2] >> # << p[3], p[4] >>
        /\ p[2] \in DOMAIN taskGroups[p[1]].tasks
        /\ p[4] \in DOMAIN taskGroups[p[3]].tasks
        /\ taskGroups[p[1]].tasks[p[2]] = taskGroups[p[3]].tasks[p[4]] }

\* The positions <<i, j, k, l>> at which the four nested loops over the
\* groups find the same task in two distinct TaskGroup objects.
groupClashes ==
    { p \in (DOMAIN taskGroups) \X (1..MaxGroupTasks)
              \X (DOMAIN taskGroups) \X (1..MaxGroupTasks) :
        /\ p[1] # p[3]
        /\ p[2] \in DOMAIN taskGroups[p[1]].tasks
        /\ p[4] \in DOMAIN taskGroups[p[3]].tasks
        /\ taskGroups[p[1]].tasks[p[2]] = taskGroups[p[3]].tasks[p[4]] }

Before(a, b) ==
    \E n \in 1..4 : a[n] < b[n] /\ \A m \in 1..(n - 1) : a[m] = b[m]

groupErrors ==
    IF groupClashes = {}
    THEN {}
    ELSE LET p == CHOOSE a \in groupClashes :
                      \A b \in groupClashes \ {a} : Before(a, b)
         IN {[Error("A Task can only exist in one TaskGroup",
                     taskGroups[p[1]].tasks[p[2]])
                 EXCEPT !.group = taskGroups[p[1]].name,
                        !.other = taskGroups[p[3]].name]}

\* validateTasks that checks the TaskGroups before the paths
validateTasks_GroupsFirst ==
    IF findEndTask.err # NoError
    THEN {findEndTask.err}
    ELSE IF groupErrors # {}
         THEN groupErrors
         ELSE UNION {pathErrors(task) : task \in DOMAIN paths}

\* validateTasks that returns again what the validation of the previous Run
\* returned, when that was an error
validateTasks_Cached ==
    IF hist # << >> /\ err # NoError /\ log = << >>
    THEN {err}
    ELSE IF findEndTask.err # NoError
         THEN {findEndTask.err}
         ELSE LET pe == UNION {pathErrors(task) : task \in DOMAIN paths} IN
              IF pe # {} THEN pe ELSE groupErrors

\* The errors validateTasks can return: {} when it returns nil.  The keys of
\* gf.paths are visited in the map's iteration order, so that with several
\* offending tasks any of their errors can be the one returned.
validateTasks ==
    IF findEndTask.err # NoError
    THEN {findEndTask.err}
    ELSE LET pe == UNION {pathErrors(task) : task \in DOMAIN paths} IN
         IF pe # {} THEN pe ELSE groupErrors

----------------------------------------------------------------------------
(* The state after `var gf Graphflow` *)

\* The RenderPathThroughGraph calls, in order: each is inside its gf.Run or
\* has returned; err is the error of its gf.Run, nil when it called
\* generateGraph, whose drawing is outside the model.
NotRendered == << >>

\* the call has found len(gf.Executed()) == 0 and is calling gf.Run, which
\* is Run call number n
Rendering(c, n) ==
    [state |-> "run", ctx |-> c, ran |-> TRUE, run |-> n, err |-> Running]

\* the call has found gf.Executed() not empty and has called generateGraph
Drawn(c) ==
    [state |-> "returned", ctx |-> c, ran |-> FALSE, run |-> 0,
     err |-> NoError]

\* err := gf.Run(context); if err != nil { return buf, err }
rendered(r, p, e) ==
    IF r # << >> /\ r[Len(r)].state = "run" /\ p = "idle"
    THEN [r EXCEPT ![Len(r)] = [@ EXCEPT !.state = "returned", !.err = e]]
    ELSE r

\* no Run has been called from a second goroutine
NoOther == [pc |-> "none", ctx |-> NilContext, q |-> << >>, visited |-> {},
            log |-> << >>, err |-> NotRun]

Init ==
    /\ tasks = << >>
    /\ taskGroups = << >>
    /\ paths = EmptyMap
    /\ context = NilContext
    /\ executed = {}
    /\ values = << >>
    /\ exitPath = [t \in AllTasks |-> ALWAYS]
    /\ pc = "idle"
    /\ q = << >>
    /\ visited = {}
    /\ err = NotRun
    /\ log = << >>
    /\ hist = << >>
    /\ script = 0
    /\ added = << >>
    /\ calls = << >>
    /\ sets = << >>
    /\ render = NotRendered
    /\ other = NoOther

----------------------------------------------------------------------------
(* The builder *)

\* addTask that does not add a task the list already holds
addTask_Unique(ts, task) ==
    IF \E i \in DOMAIN ts : ts[i] = task THEN ts ELSE Append(ts, task)

\* gf.tasks = append(gf.tasks, task)
addTask(ts, task) == Append(ts, task)

\* return task
addTaskResult(ts, task) == task

\* addPath that keeps the target a (from, condition) pair already has
addPath_KeepFirst(ps, from, condition, to) ==
    LET inner == IF from \in DOMAIN ps THEN ps[from] ELSE EmptyMap IN
    [f \in DOMAIN ps \cup {from} |->
        IF f = from
        THEN [c \in DOMAIN inner \cup {condition} |->
                 IF c \in DOMAIN inner THEN inner[c] ELSE to]
        ELSE ps[f]]

\* addPath that makes a new inner map for `from` on every call
addPath_ResetSource(ps, from, condition, to) ==
    [f \in DOMAIN ps \cup {from} |->
        IF f = from
        THEN [c \in {condition} |-> to]
        ELSE ps[f]]

addPath(ps, from, condition, to) ==
    LET inner == IF from \in DOMAIN ps THEN ps[from] ELSE EmptyMap IN
    [f \in DOMAIN ps \cup {from} |->
        IF f = from
        THEN [c \in DOMAIN inner \cup {condition} |->
                 IF c = condition THEN to ELSE inner[c]]
        ELSE ps[f]]

NumPaths == Cardinality({fc \in AllTasks \X PathCondition :
                fc[1] \in DOMAIN paths /\ fc[2] \in DOMAIN paths[fc[1]]})

AddTask(task) ==
    /\ pc = "idle"
    /\ hist = << >>
    /\ Len(tasks) < MaxTasks
    /\ tasks' = addTask(tasks, task)
    /\ UNCHANGED << taskGroups, paths, context, executed, values, exitPath,
                    pc, q, visited, err, log, hist, script, added, calls, sets,
                    render,                    other >>

AddPath(from, condition, to) ==
    /\ pc = "idle"
    /\ hist = << >>
    /\ NumPaths < MaxPaths
         \/ (from \in DOMAIN paths /\ condition \in DOMAIN paths[from])
    /\ paths' = addPath(paths, from, condition, to)
    /\ UNCHANGED << tasks, taskGroups, context, executed, values, exitPath,
                    pc, q, visited, err, log, hist, script, added, calls, sets,
                    render,                    other >>

NewTaskGroup(name) ==
    /\ pc = "idle"
    /\ hist = << >>
    /\ Len(taskGroups) < MaxGroups
    /\ taskGroups' = Append(taskGroups, [name |-> name, tasks |-> << >>])
    /\ UNCHANGED << tasks, paths, context, executed, values, exitPath,
                    pc, q, visited, err, log, hist, script, added, calls, sets,
                    render,                    other >>

\* the number of tasks in all the groups together
NumGroupTasks ==
    Cardinality({gi \in (DOMAIN taskGroups) \X (1..MaxGroupTasks) :
                    gi[2] \in DOMAIN taskGroups[gi[1]].tasks})

AddTasks(g, ts) ==
    /\ pc = "idle"
    /\ hist = << >>
    /\ g \in DOMAIN taskGroups
    /\ NumGroupTasks + Len(ts) <= MaxGroupTasks
    /\ taskGroups' = [taskGroups EXCEPT ![g].tasks = @ \o ts]
    /\ UNCHANGED << tasks, paths, context, executed, values, exitPath,
                    pc, q, visited, err, log, hist, script, added, calls, sets,
                    render,                    other >>

----------------------------------------------------------------------------
(* The caller's contexts: new(ExecutionContext), then ctx.Set("Sky", sky)  *)
(* and ctx.Set("Forecast", ""), or no Set at all.                          *)

SkyInputs == {"Cloudy", "Clear", Nil}

newContext(sky) ==
    IF sky = Nil
    THEN EmptyMap
    ELSE Set(Set(EmptyMap, "Sky", sky), "Forecast", "")

NewContext(sky) ==
    /\ pc = "idle"
    /\ Len(values) < MaxContexts
    /\ values' = Append(values, newContext(sky))
    /\ UNCHANGED << tasks, taskGroups, paths, context, executed, exitPath,
                    pc, q, visited, err, log, hist, script, added, calls, sets,
                    render,                    other >>

----------------------------------------------------------------------------
(* Run and execute *)

RunRecord(c, vals, e, done) ==
    [ctx |-> c, init |-> vals[c], graph |-> graph, err |-> e,
     final |-> vals[c], executed |-> {}, log |-> << >>, done |-> done]

Returned(h, e, vals, ex, lg) ==
    [h EXCEPT ![Len(h)] =
        [@ EXCEPT !.err = e, !.final = vals, !.executed = ex, !.log = lg,
                  !.done = TRUE]]

\* a Run that leaves gf.executed as the previous Run left it
newExecuted_Keep(previous) == previous

\* gf.executed = make(map[TaskIntf]bool)
newExecuted(previous) == {}

\* a visited map that starts as the map of the previous Run
newVisited_Reuse(previous) == previous

\* visited := make(map[TaskIntf]bool)
newVisited(previous) == {}

\* gf.Run(c) up to the first iteration of the loop of execute(); vals are
\* the contexts at the time of the call.
run(c, vals) ==
    /\ pc = "idle"
    /\ context' = c
    /\ executed' = newExecuted(executed)
    /\ log' = << >>
    /\ visited' = IF validateTasks = {} /\ findStartTask.err = NoError
                  THEN newVisited(executed)
                  ELSE {}
    /\ IF validateTasks # {}
       THEN /\ \E e \in validateTasks :
                 /\ err' = e
                 /\ hist' = Append(hist, RunRecord(c, vals, e, TRUE))
            /\ pc' = "idle"
            /\ q' = << >>
       ELSE IF findStartTask.err # NoError
            THEN /\ err' = findStartTask.err
                 /\ hist' = Append(hist,
                        RunRecord(c, vals, findStartTask.err, TRUE))
                 /\ pc' = "idle"
                 /\ q' = << >>
            ELSE /\ err' = Running
                 /\ hist' = Append(hist, RunRecord(c, vals, Running, FALSE))
                 /\ pc' = "loop"
                 /\ q' = << findStartTask.task >>
    /\ UNCHANGED << tasks, taskGroups, paths, exitPath, script, added, calls,
                    sets, other >>

\* Run on a context the caller already holds.
Run(c) ==
    /\ c \in DOMAIN values
    /\ Len(hist) < MaxRuns
    /\ run(c, values)
    /\ UNCHANGED << values, render >>

\* The body of the tests: ctx := new(ExecutionContext), its Set calls, and
\* gf.Run(ctx) on the graph just built.
TestRun(sky) ==
    /\ hist = << >>
    /\ values' = Append(values, newContext(sky))
    /\ run(Len(values) + 1, values')
    /\ UNCHANGED render

\* successors that tests visited[task] where the code tests visited[to]
successors_VisitedTask(task, path, seen) ==
    LET near == IF task \in DOMAIN paths THEN paths[task] ELSE EmptyMap IN
    IF path \in DOMAIN near /\ task \notin seen
    THEN << near[path] >>
    ELSE << >>

\* successors that follows both the YES and the NO path of a question
successors_BothBranches(task, path, seen) ==
    LET near == IF task \in DOMAIN paths THEN paths[task] ELSE EmptyMap
        follow(c) == /\ c \in DOMAIN near
                     /\ near[c] \notin seen
                     /\ c = path \/ ({c, path} = {YES, NO})
        conds == SelectSeq(<< ALWAYS, YES, NO, ERROR >>, follow)
    IN [i \in DOMAIN conds |-> near[conds[i]]]

\* successors that does not test visited[to]
successors_Revisit(task, path, seen) ==
    LET near == IF task \in DOMAIN paths THEN paths[task] ELSE EmptyMap IN
    IF path \in DOMAIN near
    THEN << near[path] >>
    ELSE << >>

\* successors that follows the ALWAYS path when the exit path has no path
successors_FallbackAlways(task, path, seen) ==
    LET near == IF task \in DOMAIN paths THEN paths[task] ELSE EmptyMap
        p == IF path \in DOMAIN near THEN path ELSE ALWAYS
    IN IF p \in DOMAIN near /\ near[p] \notin seen
       THEN << near[p] >>
       ELSE << >>

\* successors that never follows a path keyed by ERROR
successors_NoError(task, path, seen) ==
    LET near == IF task \in DOMAIN paths THEN paths[task] ELSE EmptyMap IN
    IF path \in DOMAIN near /\ path # ERROR /\ near[path] \notin seen
    THEN << near[path] >>
    ELSE << >>

\* successors that does not compare the path with the exit path
successors_AnyPath(task, path, seen) ==
    LET near == IF task \in DOMAIN paths THEN paths[task] ELSE EmptyMap
        follow(c) == c \in DOMAIN near /\ near[c] \notin seen
        conds == SelectSeq(<< ALWAYS, YES, NO, ERROR >>, follow)
    IN [i \in DOMAIN conds |-> near[conds[i]]]

\* The tasks one iteration enqueues after `task` has selected `path`.
\* successors that enqueues a target only when it is in gf.tasks
successors_RegisteredOnly(task, path, seen) ==
    LET near == IF task \in DOMAIN paths THEN paths[task] ELSE EmptyMap IN
    IF /\ path \in DOMAIN near
       /\ near[path] \notin seen
       /\ \E i \in DOMAIN tasks : tasks[i] = near[path]
    THEN << near[path] >>
    ELSE << >>

successors(task, path, seen) ==
    LET near == IF task \in DOMAIN paths THEN paths[task] ELSE EmptyMap IN
    IF path \in DOMAIN near /\ near[path] \notin seen
    THEN << near[path] >>
    ELSE << >>

\* executeLoop that takes the executed task off gf.tasks
executeLoop_ConsumeTasks ==
    /\ pc = "loop"
    /\ q # << >>
    /\ LET task == Head(q)
           seen == visited \cup {task}
           r == Execute(task, values[context], exitPath[task])
           succ == successors(task, r.exitPath, seen)
           keep(t) == t # task
       IN /\ log' = Append(log, task)
          /\ tasks' = SelectSeq(tasks, keep)
          /\ values' = [values EXCEPT ![context] = r.values]
          /\ exitPath' = [exitPath EXCEPT ![task] = r.exitPath]
          /\ IF r.err # NoError
             THEN /\ err' = r.err
                  /\ pc' = "idle"
                  /\ q' = << >>
                  /\ visited' = {}
                  /\ hist' = Returned(hist, r.err, r.values, executed,
                                       Append(log, task))
             ELSE /\ q' = Tail(q) \o succ
                  /\ visited' = seen \cup {succ[i] : i \in DOMAIN succ}
                  /\ UNCHANGED << err, pc, hist >>
    /\ render' = rendered(render, pc', err')
    /\ UNCHANGED << taskGroups, paths, context, executed, script, added,
                    calls, sets, other >>

\* executeLoop that passes Execute the context of the first Run
executeLoop_FirstRunContext ==
    /\ pc = "loop"
    /\ q # << >>
    /\ LET task == Head(q)
           seen == visited \cup {task}
           c == hist[1].ctx
           r == Execute(task, values[c], exitPath[task])
           succ == successors(task, r.exitPath, seen)
       IN /\ log' = Append(log, task)
          /\ values' = [values EXCEPT ![c] = r.values]
          /\ exitPath' = [exitPath EXCEPT ![task] = r.exitPath]
          /\ IF r.err # NoError
             THEN /\ err' = r.err
                  /\ pc' = "idle"
                  /\ q' = << >>
                  /\ visited' = {}
                  /\ hist' = Returned(hist, r.err, r.values, executed,
                                       Append(log, task))
             ELSE /\ q' = Tail(q) \o succ
                  /\ visited' = seen \cup {succ[i] : i \in DOMAIN succ}
                  /\ UNCHANGED << err, pc, hist >>
    /\ render' = rendered(render, pc', err')
    /\ UNCHANGED << tasks, taskGroups, paths, context, executed, script,
                    added, calls, sets, other >>

\* executeLoop that marks the target of every path of the task visited
executeLoop_MarkAllTargets ==
    /\ pc = "loop"
    /\ q # << >>
    /\ LET task == Head(q)
           seen == visited \cup {task}
           r == Execute(task, values[context], exitPath[task])
           succ == successors(task, r.exitPath, seen)
           near == IF task \in DOMAIN paths THEN paths[task] ELSE EmptyMap
       IN /\ log' = Append(log, task)
          /\ values' = [values EXCEPT ![context] = r.values]
          /\ exitPath' = [exitPath EXCEPT ![task] = r.exitPath]
          /\ IF r.err # NoError
             THEN /\ err' = r.err
                  /\ pc' = "idle"
                  /\ q' = << >>
                  /\ visited' = {}
                  /\ hist' = Returned(hist, r.err, r.values, executed,
                                       Append(log, task))
             ELSE /\ q' = Tail(q) \o succ
                  /\ visited' = seen \cup {near[c] : c \in DOMAIN near}
                  /\ UNCHANGED << err, pc, hist >>
    /\ render' = rendered(render, pc', err')
    /\ UNCHANGED << tasks, taskGroups, paths, context, executed, script,
                    added, calls, sets, other >>

\* executeLoop that stores the visited map in gf.executed when Execute fails
executeLoop_StoreVisited ==
    /\ pc = "loop"
    /\ q # << >>
    /\ LET task == Head(q)
           seen == visited \cup {task}
           r == Execute(task, values[context], exitPath[task])
           succ == successors(task, r.exitPath, seen)
       IN /\ log' = Append(log, task)
          /\ values' = [values EXCEPT ![context] = r.values]
          /\ exitPath' = [exitPath EXCEPT ![task] = r.exitPath]
          /\ IF r.err # NoError
             THEN /\ err' = r.err
                  /\ pc' = "idle"
                  /\ q' = << >>
                  /\ visited' = {}
                  /\ executed' = seen
                  /\ hist' = Returned(hist, r.err, r.values, seen,
                                       Append(log, task))
             ELSE /\ q' = Tail(q) \o succ
                  /\ visited' = seen \cup {succ[i] : i \in DOMAIN succ}
                  /\ UNCHANGED << err, pc, hist, executed >>
    /\ render' = rendered(render, pc', err')
    /\ UNCHANGED << tasks, taskGroups, paths, context, script, added, calls,
                    sets, other >>

\* executeLoop that restores the context of the call when Execute fails
executeLoop_Rollback ==
    /\ pc = "loop"
    /\ q # << >>
    /\ LET task == Head(q)
           seen == visited \cup {task}
           r == Execute(task, values[context], exitPath[task])
           succ == successors(task, r.exitPath, seen)
           init == hist[Len(hist)].init
       IN /\ log' = Append(log, task)
          /\ exitPath' = [exitPath EXCEPT ![task] = r.exitPath]
          /\ IF r.err # NoError
             THEN /\ values' = [values EXCEPT ![context] = init]
                  /\ err' = r.err
                  /\ pc' = "idle"
                  /\ q' = << >>
                  /\ visited' = {}
                  /\ hist' = Returned(hist, r.err, init, executed,
                                       Append(log, task))
             ELSE /\ values' = [values EXCEPT ![context] = r.values]
                  /\ q' = Tail(q) \o succ
                  /\ visited' = seen \cup {succ[i] : i \in DOMAIN succ}
                  /\ UNCHANGED << err, pc, hist >>
    /\ render' = rendered(render, pc', err')
    /\ UNCHANGED << tasks, taskGroups, paths, context, executed, script,
                    added, calls, sets, other >>

\* One iteration of the loop of execute().
executeLoop ==
    /\ pc = "loop"
    /\ q # << >>
    /\ LET task == Head(q)
           seen == visited \cup {task}
           r == Execute(task, values[context], exitPath[task])
           succ == successors(task, r.exitPath, seen)
       IN /\ log' = Append(log, task)
          /\ values' = [values EXCEPT ![context] = r.values]
          /\ exitPath' = [exitPath EXCEPT ![task] = r.exitPath]
          /\ IF r.err # NoError
             THEN /\ err' = r.err
                  /\ pc' = "idle"
                  /\ q' = << >>
                  /\ visited' = {}
                  /\ hist' = Returned(hist, r.err, r.values, executed,
                                       Append(log, task))
             ELSE /\ q' = Tail(q) \o succ
                  /\ visited' = seen \cup {succ[i] : i \in DOMAIN succ}
                  /\ UNCHANGED << err, pc, hist >>
    /\ render' = rendered(render, pc', err')
    /\ UNCHANGED << tasks, taskGroups, paths, context, executed, script,
                    added, calls, sets, other >>

\* executeReturn that returns an error when no EndTask was visited
executeReturn_RequireEnd ==
    LET e == IF visited \cap EndTasks # {}
             THEN NoError
             ELSE Error("EndTask was not reached", NoTask)
    IN
    /\ pc = "loop"
    /\ q = << >>
    /\ executed' = visited
    /\ err' = e
    /\ pc' = "idle"
    /\ visited' = {}
    /\ hist' = Returned(hist, e, values[context], visited, log)
    /\ render' = rendered(render, pc', err')
    /\ UNCHANGED << tasks, taskGroups, paths, context, values, exitPath,
                    q, log, script, added, calls, sets, other >>

\* executeReturn that does not store the visited map in gf.executed
executeReturn_NoStore ==
    /\ pc = "loop"
    /\ q = << >>
    /\ executed' = executed
    /\ err' = NoError
    /\ pc' = "idle"
    /\ visited' = {}
    /\ hist' = Returned(hist, NoError, values[context], executed, log)
    /\ render' = rendered(render, pc', err')
    /\ UNCHANGED << tasks, taskGroups, paths, context, values, exitPath,
                    q, log, script, added, calls, sets, other >>

\* The queue is empty: execute() stores the visited map and Run returns nil.
executeReturn ==
    /\ pc = "loop"
    /\ q = << >>
    /\ executed' = visited
    /\ err' = NoError
    /\ pc' = "idle"
    /\ visited' = {}
    /\ hist' = Returned(hist, NoError, values[context], visited, log)
    /\ render' = rendered(render, pc', err')
    /\ UNCHANGED << tasks, taskGroups, paths, context, values, exitPath,
                    q, log, script, added, calls, sets, other >>

----------------------------------------------------------------------------
(* Spec: a caller that registers tasks and paths and runs the graph *)

Next ==
    \/ \E task \in BuildTasks : AddTask(task)
    \/ \E from \in BuildTasks, condition \in PathCondition,
                    to \in PathTargets :
          AddPath(from, condition, to)
    \/ \E sky \in SkyInputs : TestRun(sky)
    \/ executeLoop
    \/ executeReturn

Spec == Init /\ [][Next]_vars

\* Run is one synchronous call: once it is in the loop of execute() the
\* calling goroutine goes on, iteration after iteration, as long as every
\* Execute returns.
FairSpec == Spec /\ WF_vars(executeLoop) /\ WF_vars(executeReturn)

----------------------------------------------------------------------------
(* SpecGroups: a caller that registers tasks, groups them and runs the graph *)

GroupNames == {"my taskgroup", "my other taskgroup"}

NextGroups ==
    \/ \E task \in BuildTasks : AddTask(task)
    \/ \E name \in GroupNames : NewTaskGroup(name)
    \/ \E g \in 1..MaxGroups, task \in BuildTasks : AddTasks(g, << task >>)
    \/ \E sky \in SkyInputs : TestRun(sky)
    \/ executeLoop
    \/ executeReturn

SpecGroups == Init /\ [][NextGroups]_vars

----------------------------------------------------------------------------
(* SpecScenario: the forecast graph of the tests and of the README, run on *)
(* contexts the caller creates                                             *)

\* buildGraphflow(): with forecastFog registered and left without paths
\* (README, _examples/main.go) or without it (the tests).
buildGraphflow(withFog) ==
    /\ script = 0
    /\ pc = "idle"
    /\ tasks' =
         LET t1 == addTask(tasks, "start")
             t2 == addTask(t1, "cloudy")
             t3 == IF withFog THEN addTask(t2, "fog") ELSE t2
             t4 == addTask(t3, "rain")
             t5 == addTask(t4, "sun")
         IN addTask(t5, "end")
    /\ paths' =
         LET p1 == addPath(paths, "start", ALWAYS, "cloudy")
             p2 == addPath(p1, "cloudy", YES, "rain")
             p3 == addPath(p2, "cloudy", NO, "sun")
             p4 == addPath(p3, "rain", ALWAYS, "end")
         IN addPath(p4, "sun", ALWAYS, "end")
    /\ script' = 1
    /\ UNCHANGED << taskGroups, context, executed, values, exitPath,
                    pc, q, visited, err, log, hist, added, calls, sets, render,
                    other >>

NextScenario ==
    \/ \E withFog \in BOOLEAN : buildGraphflow(withFog)
    \/ \E sky \in SkyInputs : script = 1 /\ NewContext(sky)
    \/ \E c \in 1..MaxContexts : script = 1 /\ Run(c)
    \/ executeLoop
    \/ executeReturn

SpecScenario == Init /\ [][NextScenario]_vars

----------------------------------------------------------------------------
(* SpecFailFast: a caller whose paths lead through forecastSun to          *)
(* isTheSkyCloudy, run on a context that may lack "Sky"                    *)

FailFastSources == {"start", "sun", "cloudy"}

FailFastTargets == {"sun", "cloudy"}

NextFailFast ==
    \/ \E task \in BuildTasks : AddTask(task)
    \/ \E from \in FailFastSources, condition \in PathCondition,
          to \in FailFastTargets : AddPath(from, condition, to)
    \/ \E sky \in SkyInputs : TestRun(sky)
    \/ executeLoop
    \/ executeReturn

SpecFailFast == Init /\ [][NextFailFast]_vars

----------------------------------------------------------------------------
(* SpecPaths: a caller that only adds paths, every call of which is        *)
(* recorded                                                                *)

MaxCalls == 3

\* gf.AddPath(from, condition, to), recorded in `added`
CallAddPath(from, condition, to) ==
    /\ pc = "idle"
    /\ Len(added) < MaxCalls
    /\ paths' = addPath(paths, from, condition, to)
    /\ added' = Append(added, << from, condition, to >>)
    /\ UNCHANGED << tasks, taskGroups, context, executed, values, exitPath,
                    pc, q, visited, err, log, hist, script, calls, sets,
                    render, other >>

NextPaths ==
    \E from \in BuildTasks, condition \in PathCondition, to \in PathTargets :
        CallAddPath(from, condition, to)

SpecPaths == Init /\ [][NextPaths]_vars

----------------------------------------------------------------------------
(* SpecExit: a caller that also calls SetExitPath on the tasks it created  *)
(* before it runs the graph                                                *)

ExitTasks == {"start", "end"}

\* task.SetExitPath(path), called by the owner of the task object
SetExitPath(task, path) ==
    /\ pc = "idle"
    /\ hist = << >>
    /\ exitPath' = [exitPath EXCEPT ![task] = path]
    /\ UNCHANGED << tasks, taskGroups, paths, context, executed, values,
                    pc, q, visited, err, log, hist, script, added, calls, sets,
                    render,                    other >>

NextExit ==
    \/ \E task \in ExitTasks : AddTask(task)
    \/ \E from \in ExitTasks, condition \in PathCondition, to \in PathTargets :
          AddPath(from, condition, to)
    \/ \E task \in ExitTasks, path \in PathCondition : SetExitPath(task, path)
    \/ \E sky \in SkyInputs : TestRun(sky)
    \/ executeLoop
    \/ executeReturn

SpecExit == Init /\ [][NextExit]_vars

----------------------------------------------------------------------------
(* SpecRender: the forecast graph, run by the caller and rendered with     *)
(* RenderPathThroughGraph                                                  *)

MaxRenders == 2

\* RenderPathThroughGraph that calls gf.Run whatever gf.Executed() holds
RenderPathThroughGraph_AlwaysRun(c) ==
    /\ pc = "idle"
    /\ c \in DOMAIN values
    /\ Len(render) < MaxRenders
    /\ Len(hist) < MaxRuns
    /\ run(c, values)
    /\ render' = rendered(Append(render, Rendering(c, Len(hist) + 1)),
                          pc', err')
    /\ UNCHANGED values

\* RenderPathThroughGraph(context, gf) up to the first iteration of the loop
\* of execute() when it calls gf.Run, and all of it when it does not.
RenderPathThroughGraph(c) ==
    /\ pc = "idle"
    /\ c \in DOMAIN values
    /\ Len(render) < MaxRenders
    /\ IF Cardinality(Executed) = 0
       THEN /\ Len(hist) < MaxRuns
            /\ run(c, values)
            /\ render' = rendered(Append(render, Rendering(c, Len(hist) + 1)),
                                  pc', err')
            /\ UNCHANGED values
       ELSE /\ render' = Append(render, Drawn(c))
            /\ UNCHANGED << tasks, taskGroups, paths, context, executed,
                            values, exitPath, pc, q, visited, err, log, hist,
                            script, added, calls, sets, other >>

NextRender ==
    \/ \E withFog \in BOOLEAN : buildGraphflow(withFog)
    \/ \E sky \in SkyInputs : script = 1 /\ NewContext(sky)
    \/ \E c \in 1..MaxContexts : script = 1 /\ Run(c)
    \/ \E c \in 1..MaxContexts : script = 1 /\ RenderPathThroughGraph(c)
    \/ executeLoop
    \/ executeReturn

SpecRender == Init /\ [][NextRender]_vars

----------------------------------------------------------------------------
(* SpecOrder: a caller that builds a graph and runs it twice, the second   *)
(* time on a context with the values the first context started with; the   *)
(* two Runs range over the maps of gf.paths in orders of their own         *)

OrderSources == {"start", "cloudy"}

\* ctx2 := new(ExecutionContext) with the Set calls of the first context,
\* and gf.Run(ctx2)
RunAgain ==
    /\ Len(hist) = 1
    /\ values' = Append(values, hist[1].init)
    /\ run(Len(values) + 1, values')
    /\ UNCHANGED render

NextOrder ==
    \/ \E task \in ExitTasks : AddTask(task)
    \/ \E from \in OrderSources, condition \in PathCondition,
          to \in PathTargets : AddPath(from, condition, to)
    \/ \E sky \in SkyInputs : TestRun(sky)
    \/ RunAgain
    \/ executeLoop
    \/ executeReturn

SpecOrder == Init /\ [][NextOrder]_vars

----------------------------------------------------------------------------
(* SpecValidate: a caller that registers tasks, adds paths, groups tasks   *)
(* and runs the graph                                                      *)

ValidateSources == {"start"}

ValidateTargets == {"end"}

NextValidate ==
    \/ \E task \in ExitTasks : AddTask(task)
    \/ \E from \in ValidateSources, condition \in PathCondition,
          to \in ValidateTargets : AddPath(from, condition, to)
    \/ \E name \in GroupNames : NewTaskGroup(name)
    \/ \E g \in 1..MaxGroups, task \in ValidateSources :
          AddTasks(g, << task >>)
    \/ \E sky \in SkyInputs : TestRun(sky)
    \/ executeLoop
    \/ executeReturn

SpecValidate == Init /\ [][NextValidate]_vars

----------------------------------------------------------------------------
(* SpecKinds: a caller that registers up to MaxKindTasks tasks, among them *)
(* two StartTask and two EndTask objects, joins them with ALWAYS paths and *)
(* runs the graph                                                          *)

MaxKindTasks == 3

KindTasks == {"start", "start2", "end", "end2"}

KindTargets == {"start", "start2", "end"}

\* gf.AddTask(task), for the caller of SpecKinds
AddKindTask(task) ==
    /\ pc = "idle"
    /\ hist = << >>
    /\ Len(tasks) < MaxKindTasks
    /\ tasks' = addTask(tasks, task)
    /\ UNCHANGED << taskGroups, paths, context, executed, values, exitPath,
                    pc, q, visited, err, log, hist, script, added, calls, sets,
                    render,                    other >>

NextKinds ==
    \/ \E task \in KindTasks : AddKindTask(task)
    \/ \E from \in StartTasks, to \in KindTargets : AddPath(from, ALWAYS, to)
    \/ \E sky \in SkyInputs : TestRun(sky)
    \/ executeLoop
    \/ executeReturn

SpecKinds == Init /\ [][NextKinds]_vars

----------------------------------------------------------------------------
(* SpecRace: the forecast graph, on which a second goroutine calls Run     *)
(* while the Run of the first is in the loop of execute().  The two share  *)
(* gf.context, gf.executed, the contexts and the tasks; each has its own   *)
(* queue and visited map.  An iteration, the Execute call with the reading *)
(* of gf.context and of the exit path, is one step.                        *)

\* gf.Run(c) in the second goroutine, up to the first iteration of the loop
RunOther(c) ==
    /\ pc = "loop"
    /\ other.pc = "none"
    /\ c \in DOMAIN values
    /\ context' = c
    /\ executed' = newExecuted(executed)
    /\ IF validateTasks # {}
       THEN \E e \in validateTasks :
               other' = [NoOther EXCEPT !.pc = "idle", !.ctx = c, !.err = e]
       ELSE IF findStartTask.err # NoError
            THEN other' = [NoOther EXCEPT !.pc = "idle", !.ctx = c,
                                          !.err = findStartTask.err]
            ELSE other' = [NoOther EXCEPT !.pc = "loop", !.ctx = c,
                                          !.q = << findStartTask.task >>,
                                          !.err = Running]
    /\ UNCHANGED << tasks, taskGroups, paths, values, exitPath, pc, q,
                    visited, err, log, hist, script, added, calls, sets,
                    render >>

\* One iteration of the loop of execute() in the second goroutine.
executeLoopOther ==
    /\ other.pc = "loop"
    /\ other.q # << >>
    /\ LET task == Head(other.q)
           seen == other.visited \cup {task}
           r == Execute(task, values[context], exitPath[task])
           succ == successors(task, r.exitPath, seen)
       IN /\ values' = [values EXCEPT ![context] = r.values]
          /\ exitPath' = [exitPath EXCEPT ![task] = r.exitPath]
          /\ other' =
               IF r.err # NoError
               THEN [other EXCEPT !.log = Append(@, task), !.err = r.err,
                                  !.pc = "idle", !.q = << >>,
                                  !.visited = {}]
               ELSE [other EXCEPT !.log = Append(@, task),
                                  !.q = Tail(@) \o succ,
                                  !.visited =
                                      seen \cup {succ[i] : i \in DOMAIN succ}]
    /\ UNCHANGED << tasks, taskGroups, paths, context, executed, pc, q,
                    visited, err, log, hist, script, added, calls, sets,
                    render >>

\* The queue of the second goroutine is empty: it stores its visited map.
executeReturnOther ==
    /\ other.pc = "loop"
    /\ other.q = << >>
    /\ executed' = other.visited
    /\ other' = [other EXCEPT !.pc = "idle", !.err = NoError,
                              !.visited = {}]
    /\ UNCHANGED << tasks, taskGroups, paths, context, values, exitPath, pc,
                    q, visited, err, log, hist, script, added, calls, sets,
                    render >>

NextRace ==
    \/ \E withFog \in BOOLEAN : buildGraphflow(withFog)
    \/ \E sky \in SkyInputs : script = 1 /\ hist = << >> /\ NewContext(sky)
    \/ \E c \in 1..MaxContexts : script = 1 /\ hist = << >> /\ Run(c)
    \/ \E c \in 1..MaxContexts : RunOther(c)
    \/ executeLoop
    \/ executeReturn
    \/ executeLoopOther
    \/ executeReturnOther

SpecRace == Init /\ [][NextRace]_vars

----------------------------------------------------------------------------
(* SpecBuilder: a caller that only builds: it registers tasks, every       *)
(* AddTask call of which is recorded with what it returned, the same task  *)
(* object and tasks of the same type more than once, adds paths and groups *)
(* tasks                                                                   *)

BuilderTasks == {"start", "start2", "end"}

\* handle := gf.AddTask(task), recorded in `calls`
CallAddTask(task) ==
    /\ pc = "idle"
    /\ Len(calls) < MaxCalls
    /\ tasks' = addTask(tasks, task)
    /\ calls' = Append(calls, [arg |-> task,
                               ret |-> addTaskResult(tasks, task)])
    /\ UNCHANGED << taskGroups, paths, context, executed, values, exitPath,
                    pc, q, visited, err, log, hist, script, added, sets,
                    render, other >>

NextBuilder ==
    \/ \E task \in BuilderTasks : CallAddTask(task)
    \/ \E from \in ValidateSources, condition \in PathCondition,
          to \in ValidateTargets : AddPath(from, condition, to)
    \/ \E name \in GroupNames : NewTaskGroup(name)
    \/ \E g \in 1..MaxGroups, task \in ValidateSources :
          AddTasks(g, << task >>)

SpecBuilder == Init /\ [][NextBuilder]_vars

----------------------------------------------------------------------------
(* SpecContext: a caller that creates ExecutionContexts and calls Set on   *)
(* them, every call of which is recorded; Get can be called at any time    *)

MaxSets == 3

\* the keys of the tests
Keys == {"Sky", "Forecast"}

\* ctx.Set(key, value), recorded in `sets`
CallSet(c, key, value) ==
    /\ pc = "idle"
    /\ c \in DOMAIN values
    /\ Len(sets) < MaxSets
    /\ values' = [values EXCEPT ![c] = Set(@, key, value)]
    /\ sets' = Append(sets, << c, key, value >>)
    /\ UNCHANGED << tasks, taskGroups, paths, context, executed, exitPath,
                    pc, q, visited, err, log, hist, script, added, calls,
                    render, other >>

NextContext ==
    \/ NewContext(Nil)
    \/ \E c \in 1..MaxContexts, key \in Keys, value \in SkyInputs :
          CallSet(c, key, value)

SpecContext == Init /\ [][NextContext]_vars

----------------------------------------------------------------------------
(* SpecRebuild: a caller that goes on building between its Runs: it        *)
(* registers tasks, adds paths and groups tasks before and after a Run     *)
(* that returned, up to MaxBuilds additions in all, and runs the graph it  *)
(* has up to MaxRuns times, every time on a new context                    *)

MaxBuilds == 4

\* what the caller has added to the graph
NumBuilds == Len(tasks) + NumPaths + Len(taskGroups)

\* gf.AddTask(task), before or after a Run
AddTaskAgain(task) ==
    /\ pc = "idle"
    /\ NumBuilds < MaxBuilds
    /\ tasks' = addTask(tasks, task)
    /\ UNCHANGED << taskGroups, paths, context, executed, values, exitPath,
                    pc, q, visited, err, log, hist, script, added, calls,
                    sets, render, other >>

\* gf.AddPath(from, condition, to), before or after a Run
AddPathAgain(from, condition, to) ==
    /\ pc = "idle"
    /\ NumBuilds < MaxBuilds
         \/ (from \in DOMAIN paths /\ condition \in DOMAIN paths[from])
    /\ paths' = addPath(paths, from, condition, to)
    /\ UNCHANGED << tasks, taskGroups, context, executed, values, exitPath,
                    pc, q, visited, err, log, hist, script, added, calls,
                    sets, render, other >>

\* taskGroup := gf.NewTaskGroup(name); taskGroup.AddTasks(task), before or
\* after a Run
NewTaskGroupOf(name, task) ==
    /\ pc = "idle"
    /\ NumBuilds < MaxBuilds
    /\ taskGroups' = Append(taskGroups, [name |-> name, tasks |-> << task >>])
    /\ UNCHANGED << tasks, paths, context, executed, values, exitPath,
                    pc, q, visited, err, log, hist, script, added, calls,
                    sets, render, other >>

\* gf.Run(new(ExecutionContext)) on the graph as it is now
RunGraph ==
    /\ Len(hist) < MaxRuns
    /\ values' = Append(values, newContext(Nil))
    /\ run(Len(values) + 1, values')
    /\ UNCHANGED render

NextRebuild ==
    \/ \E task \in ExitTasks : AddTaskAgain(task)
    \/ \E from \in ValidateSources, condition \in PathCondition,
          to \in ValidateTargets : AddPathAgain(from, condition, to)
    \/ \E task \in ValidateSources : NewTaskGroupOf("my taskgroup", task)
    \/ RunGraph
    \/ executeLoop
    \/ executeReturn

SpecRebuild == Init /\ [][NextRebuild]_vars

----------------------------------------------------------------------------
(* What the claims speak of *)

Registered == {tasks[i] : i \in DOMAIN tasks}
HasStartTask == \E t \in Registered : IsStartTask(t)
HasEndTask == \E t \in Registered : IsEndTask(t)

\* a Run has been called / has returned
RunCalled == hist # << >>
RunReturned == hist # << >> /\ pc = "idle"
RunFailed == RunReturned /\ err # NoError
RunSucceeded == RunReturned /\ err = NoError
\* the most recent Run returned an error and invoked no Execute
FailedBeforeExecute == RunFailed /\ log = << >>

Conditions(t) == IF t \in DOMAIN paths THEN DOMAIN paths[t] ELSE {}
Sources == DOMAIN paths

GroupMembers(g) == {taskGroups[g].tasks[i] : i \in DOMAIN taskGroups[g].tasks}
InTwoGroups(t) ==
    \E g, h \in DOMAIN taskGroups :
        g # h /\ t \in GroupMembers(g) /\ t \in GroupMembers(h)

\* C1: a Run of a graph with no EndTask in its task list returns an error
\* and invokes no Execute, whatever its paths and other tasks are.
C1_NoEndTaskFails ==
    (RunCalled /\ ~HasEndTask) => FailedBeforeExecute

C1_Witness ==
    /\ RunReturned /\ ~HasEndTask /\ HasStartTask
    /\ "start" \in Sources
    /\ err.kind = "Workflow needs to contain a task of type EndTask"

\* C2: a Run of a graph with no StartTask in its task list returns an error
\* and invokes no Execute.
C2_NoStartTaskFails ==
    (RunCalled /\ ~HasStartTask) => FailedBeforeExecute

C2_Witness ==
    /\ RunReturned /\ ~HasStartTask /\ HasEndTask
    /\ Sources # {}
    /\ err.kind = "Workflow needs to contain a task of type StartTask"

\* C3: when some key of the path table has an ALWAYS path together with a
\* YES path or a NO path, Run returns an error and invokes no Execute, also
\* when that task cannot be reached from the StartTask.
AlwaysConflict(t) ==
    ALWAYS \in Conditions(t) /\ (YES \in Conditions(t) \/ NO \in Conditions(t))

C3_AlwaysWithYesOrNoFails ==
    (RunCalled /\ \E t \in Sources : AlwaysConflict(t)) => FailedBeforeExecute

\* the offending task has no path leading to it and is not registered
C3_Witness ==
    /\ RunReturned /\ HasStartTask /\ HasEndTask
    /\ AlwaysConflict("cloudy") /\ NO \in Conditions("cloudy")
    /\ "cloudy" \notin Registered
    /\ \A t \in Sources : \A c \in Conditions(t) : paths[t][c] # "cloudy"

\* C4: when some key of the path table has a YES path and no NO path, or a
\* NO path and no YES path, Run returns an error and invokes no Execute.
Unpaired(t) ==
    \/ YES \in Conditions(t) /\ NO \notin Conditions(t)
    \/ NO \in Conditions(t) /\ YES \notin Conditions(t)

C4_UnpairedYesNoFails ==
    (RunCalled /\ \E t \in Sources : Unpaired(t)) => FailedBeforeExecute

C4_Witness ==
    /\ RunReturned /\ HasStartTask /\ HasEndTask
    /\ \E t \in Sources : Conditions(t) = {NO, ERROR}
    /\ err.kind = "has as a NO path but no YES path"

\* C5: a Run gets past validation only if every key of the path table has
\* exactly the conditions {ALWAYS} or exactly {YES, NO}.
C5_OnlyAlwaysOrYesNo ==
    (RunCalled /\ ~FailedBeforeExecute) =>
        \A t \in Sources : Conditions(t) \in {{ALWAYS}, {YES, NO}}

\* C6: a task that is in two different groups makes Run return an error
\* without any Execute; and when a Run invokes an Execute, no task is in two
\* groups.
C6_TaskInTwoGroupsFails ==
    /\ (RunCalled /\ \E t \in AllTasks : InTwoGroups(t)) => FailedBeforeExecute
    /\ (RunCalled /\ log # << >>) => \A t \in AllTasks : ~InTwoGroups(t)

C6_Witness ==
    /\ RunReturned /\ HasStartTask /\ HasEndTask
    /\ \E t \in AllTasks : InTwoGroups(t)
    /\ err.kind = "A Task can only exist in one TaskGroup"

\* C7: a graph with a StartTask, an EndTask and no path at all runs to
\* success; the first StartTask is the only task executed and the visited
\* set is that task alone.
C7_NoPathsRunsStartOnly ==
    (RunReturned /\ HasStartTask /\ HasEndTask /\ paths = EmptyMap) =>
        /\ err = NoError
        /\ log = << findStartTask.task >>
        /\ executed = {findStartTask.task}

C7_Witness ==
    /\ RunReturned /\ HasStartTask /\ HasEndTask /\ paths = EmptyMap
    /\ tasks = << "end", "start" >>
    /\ executed = {"start"}

Range(s) == {s[i] : i \in DOMAIN s}
Sky == Get(values[context], "Sky")
Forecast == Get(values[context], "Forecast")

\* C8: on the forecast graph, a Run with Sky = "Cloudy" succeeds with
\* Forecast = "Rain" and executes Start, IsTheSkyCloudy, ForecastRain, End
\* in that order; a Run with Sky = "Clear" succeeds with Forecast = "Sun"
\* and does not execute ForecastRain.
C8_ScenarioA ==
    RunReturned =>
        /\ Sky = "Cloudy" =>
              /\ err = NoError
              /\ Forecast = "Rain"
              /\ log = << "start", "cloudy", "rain", "end" >>
        /\ Sky = "Clear" =>
              /\ err = NoError
              /\ Forecast = "Sun"
              /\ "rain" \notin Range(log)

C8_Witness ==
    /\ RunReturned /\ Sky = "Clear" /\ Forecast = "Sun"
    /\ "fog" \notin Registered
    /\ Len(hist) = 2 /\ Get(hist[1].init, "Sky") = "Cloudy"
    /\ Get(hist[1].final, "Forecast") = "Rain"

\* The tasks on the walk from t along the path each task's exit path selects.
RECURSIVE Walk(_, _)
Walk(t, seen) ==
    IF t \in seen
    THEN seen
    ELSE IF exitPath[t] \in Conditions(t)
         THEN Walk(paths[t][exitPath[t]], seen \cup {t})
         ELSE seen \cup {t}

Reachable == IF HasStartTask THEN Walk(findStartTask.task, {}) ELSE {}

\* C9: a registered task that the walk from the StartTask along the selected
\* paths does not reach is not executed and is not in the visited set, and
\* the Run fails only when a task it executes fails.
C9_UnreachableNeverExecuted ==
    RunReturned =>
        /\ \A t \in Registered \ Reachable :
               t \notin Range(log) /\ t \notin executed
        /\ Sky # Nil => err = NoError

C9_Witness ==
    /\ RunSucceeded /\ "fog" \in Registered
    /\ "fog" \notin Reachable /\ "sun" \notin Reachable
    /\ executed = {"start", "cloudy", "rain", "end"}

\* C10: two consecutive Runs of the same graph, each on a fresh context with
\* the same initial values, return the same result and leave the same
\* context values and the same visited set (and execute the same tasks).
FreshContext(i) == \A j \in 1..(i - 1) : hist[j].ctx # hist[i].ctx

C10_Idempotent ==
    \A i \in 1..(Len(hist) - 1) :
        (/\ hist[i].done /\ hist[i + 1].done
         /\ FreshContext(i) /\ FreshContext(i + 1)
         /\ hist[i].graph = hist[i + 1].graph
         /\ hist[i].init = hist[i + 1].init)
        => /\ hist[i + 1].err = hist[i].err
           /\ hist[i + 1].final = hist[i].final
           /\ hist[i + 1].executed = hist[i].executed
           /\ hist[i + 1].log = hist[i].log

C10_Witness ==
    /\ Len(hist) = 2 /\ hist[1].done /\ hist[2].done
    /\ hist[1].ctx # hist[2].ctx
    /\ hist[1].init = hist[2].init
    /\ Get(hist[2].init, "Sky") = "Cloudy"
    /\ hist[2].err = NoError
    /\ hist[2].executed = {"start", "cloudy", "rain", "end"}
    /\ executed = hist[2].executed

Last(s) == s[Len(s)]

\* C11: once the EndTask has been executed in a Run, no further task is
\* executed in that Run: an EndTask in the sequence of executed tasks is the
\* last of it.
C11_StopsAtEndTask ==
    \A i \in DOMAIN log : IsEndTask(log[i]) => i = Len(log)

\* the Execute of a task executed in the most recent Run returns an error
ExecuteFailed ==
    \E t \in Range(log) :
        Execute(t, values[context], exitPath[t]).err # NoError

\* C12: when validation passes, a StartTask exists and no executed task
\* returns an error, Run returns nil, also when the EndTask was not reached.
C12_DeadEndSucceeds ==
    (RunReturned /\ validateTasks = {} /\ HasStartTask /\ ~ExecuteFailed)
        => err = NoError

\* the walk ends at IsTheSkyCloudy, which has no path for its exit path
C12_Witness ==
    /\ RunSucceeded /\ HasEndTask
    /\ log = << "start", "cloudy" >>
    /\ exitPath["cloudy"] \notin Conditions("cloudy")
    /\ "end" \notin executed

\* C17: in a Run that succeeds, whenever an executed task has an ALWAYS path
\* whose target was not visited before, that target is the task executed next.
C17_AlwaysPathFollowed ==
    RunSucceeded =>
        \A i \in DOMAIN log :
            (/\ ALWAYS \in Conditions(log[i])
             /\ \A j \in 1..i : log[j] # paths[log[i]][ALWAYS])
            => /\ i < Len(log)
               /\ log[i + 1] = paths[log[i]][ALWAYS]

\* the context after the Execute of every task of lg, in order, from vals
RECURSIVE Replay(_, _)
Replay(lg, vals) ==
    IF lg = << >>
    THEN vals
    ELSE Replay(Tail(lg), Execute(Head(lg), vals, exitPath[Head(lg)]).values)

\* C13: when the Execute of an executed task returns an error, Run has
\* returned that very error, the task is the last one executed in that Run,
\* and the context holds every mutation made by the tasks executed in that
\* Run, the failing one included.
C13_FailFast ==
    \A i \in DOMAIN log :
        LET r == Execute(log[i], values[context], exitPath[log[i]]) IN
        r.err # NoError
            => /\ pc = "idle"
               /\ q = << >>
               /\ err = r.err
               /\ i = Len(log)
               /\ values[context] = Replay(log, hist[Len(hist)].init)

\* forecastSun has set "Forecast" before isTheSkyCloudy fails
C13_Witness ==
    /\ RunFailed
    /\ log = << "start", "sun", "cloudy" >>
    /\ err = Error("Failed to retrieve Sky", "cloudy")
    /\ Get(values[context], "Forecast") = "Sun"
    /\ hist[Len(hist)].init = EmptyMap

\* the most recent Run returned the error of a task's Execute
RunAborted == RunFailed /\ log # << >>

\* C14 as stated: after a Run aborted by the error of a task's Execute,
\* Executed() holds every task executed in that Run, the failing one
\* included.
C14_VisitedKeptOnFailure ==
    RunAborted => executed = Range(log)

\* C14, amended: after a Run aborted by the error of a task's Execute,
\* Executed() is empty, whatever tasks that Run and the Runs before it
\* executed.
C14_VisitedEmptyOnFailure ==
    RunAborted => executed = {}

\* a Run that visited four tasks, then a Run aborted at isTheSkyCloudy
C14_Witness ==
    /\ RunAborted
    /\ Len(hist) = 2
    /\ hist[1].executed = {"start", "cloudy", "rain", "end"}
    /\ log = << "start", "cloudy" >>
    /\ executed = {}

\* C15: after any sequence of Run calls, GetContext() is the context passed
\* to the most recent Run, and Executed() holds only tasks executed in the
\* most recent Run.
C15_MostRecentRun ==
    RunCalled =>
        /\ GetContext = hist[Len(hist)].ctx
        /\ Executed \subseteq Range(log)

\* two Runs on two contexts: the second one took the other branch
C15_Witness ==
    /\ RunReturned
    /\ Len(hist) = 2
    /\ hist[1].ctx # hist[2].ctx
    /\ "rain" \in hist[1].executed
    /\ GetContext = hist[2].ctx
    /\ Executed = {"start", "cloudy", "sun", "end"}

\* the AddPath calls made with this source and this condition
CallsFor(from, condition) ==
    {i \in DOMAIN added : added[i][1] = from /\ added[i][2] = condition}

\* the most recent of them
LastCallFor(from, condition) ==
    CHOOSE i \in CallsFor(from, condition) :
        \A j \in CallsFor(from, condition) : j <= i

\* C16: after any sequence of AddPath calls the path table holds one target
\* for every (source, condition) pair that was added, the target of the most
\* recent AddPath call with that pair, and holds no other pair.
C16_LatestTargetWins ==
    /\ \A from \in DOMAIN paths : \A condition \in DOMAIN paths[from] :
          CallsFor(from, condition) # {}
    /\ \A i \in DOMAIN added :
          LET from == added[i][1]
              condition == added[i][2]
          IN /\ from \in DOMAIN paths
             /\ condition \in DOMAIN paths[from]
             /\ paths[from][condition]
                    = added[LastCallFor(from, condition)][3]

\* the third call replaces the target the first call gave to the same pair
C16_Witness ==
    /\ Len(added) = 3
    /\ added[1] = << "start", ALWAYS, "cloudy" >>
    /\ added[2] = << "cloudy", YES, "end" >>
    /\ added[3] = << "start", ALWAYS, "end" >>
    /\ paths["start"][ALWAYS] = "end"
    /\ NumPaths = 2

\* an iteration of the loop has executed Last(log) and read its exit path
ExitPathRead == pc = "loop" /\ log # << >>

\* the iteration that executed Last(log) has followed its ERROR path
FollowedErrorPath ==
    /\ ExitPathRead
    /\ ERROR \in Conditions(Last(log))
    /\ exitPath[Last(log)] = ERROR
    /\ q = << paths[Last(log)][ERROR] >>

CallsSetExitPath(t, vals) ==
    t = "cloudy" /\ Get(vals, "Sky") # Nil

\* C19: in every Run, the exit path read for a task whose Execute did not
\* call SetExitPath in that Run is ALWAYS.
C19_UntouchedExitPathIsAlways ==
    (ExitPathRead /\ ~CallsSetExitPath(Last(log), values[context]))
        => exitPath[Last(log)] = ALWAYS

\* a RenderPathThroughGraph(c, gf) step makes a Run call, with c, exactly
\* when Executed() is empty, and otherwise changes nothing of the graphflow
RenderStep ==
    \A c \in 1..MaxContexts :
        RenderPathThroughGraph(c) =>
            /\ (Executed = {}) <=> (Len(hist') = Len(hist) + 1)
            /\ Executed = {} => hist'[Len(hist')].ctx = c
            /\ Executed # {} =>
                  /\ GetContext' = GetContext
                  /\ Executed' = Executed
                  /\ values' = values
                  /\ hist' = hist

\* a call that has returned after its Run returns the error of that Run
RenderReturn ==
    \A i \in DOMAIN render :
        render[i].state = "returned" =>
            IF render[i].ran
            THEN render[i].err = hist[render[i].run].err
            ELSE render[i].err = NoError

\* C20: RenderPathThroughGraph(ctx, gf) calls gf.Run(ctx) exactly when
\* Executed() is empty at the call; when that Run returns an error the call
\* returns it; and when Executed() is not empty the call leaves the stored
\* context, Executed() and the contexts as they are and makes no Run call.
C20_RenderRunsWhenNothingExecuted ==
    [][RenderStep]_vars /\ []RenderReturn

\* a first call whose Run fails and returns the error; after a Run by the
\* caller, a second call with another context, which makes no Run call
C20_Witness ==
    /\ Len(render) = 2
    /\ render[1].ran /\ render[1].state = "returned"
    /\ render[1].err = Error("Failed to retrieve Sky", "cloudy")
    /\ ~render[2].ran
    /\ render[2].ctx # GetContext
    /\ Executed # {}
    /\ Len(hist) = 2

\* two Runs that have returned were made on the same graph and on contexts
\* with the same values
SameInputs(i, j) ==
    /\ hist[i].done /\ hist[j].done
    /\ hist[i].graph = hist[j].graph
    /\ hist[i].init = hist[j].init

\* C21: two Runs of the same task list and path table on contexts with the
\* same initial values execute the same sequence of tasks, leave the same
\* final context and return the same result, whatever order the maps of
\* gf.paths are ranged over.
C21_IterationOrderIrrelevant ==
    \A i, j \in DOMAIN hist :
        SameInputs(i, j) =>
            /\ hist[i].log = hist[j].log
            /\ hist[i].final = hist[j].final
            /\ hist[i].err = hist[j].err

\* what does not depend on the order: the tasks executed, the final context
\* and whether Run returns nil
WalkDeterministic ==
    \A i, j \in DOMAIN hist :
        SameInputs(i, j) =>
            /\ hist[i].log = hist[j].log
            /\ hist[i].final = hist[j].final
            /\ (hist[i].err = NoError) <=> (hist[j].err = NoError)

\* what the graph lacks, as the claims name it
EdgeConflict == \E t \in Sources : AlwaysConflict(t) \/ Unpaired(t)
DuplicateMembership == \E t \in AllTasks : InTwoGroups(t)

\* the errors of the four checks
MissingEnd == {"Workflow needs to contain a task of type EndTask"}
ConflictingPaths ==
    {"cannot have an ALWAYS path as well as a YES path",
     "cannot have an ALWAYS path as well as a NO path",
     "has as a YES path but no NO path",
     "has as a NO path but no YES path"}
TwoGroups == {"A Task can only exist in one TaskGroup"}
MissingStart == {"Workflow needs to contain a task of type StartTask"}

\* C22: a Run of a graph with structural faults returns one error and invokes
\* no Execute; the error is that of the first fault in the order missing
\* EndTask, conflicting paths, task in two TaskGroups, missing StartTask.
C22_FirstStructuralError ==
    RunReturned =>
        IF ~HasEndTask
        THEN err.kind \in MissingEnd /\ log = << >>
        ELSE IF EdgeConflict
        THEN err.kind \in ConflictingPaths /\ log = << >>
        ELSE IF DuplicateMembership
        THEN err.kind \in TwoGroups /\ log = << >>
        ELSE IF ~HasStartTask
        THEN err.kind \in MissingStart /\ log = << >>
        ELSE err.kind \notin
                MissingEnd \cup ConflictingPaths \cup TwoGroups \cup MissingStart

\* a graph with all four faults reports the missing EndTask
C22_Witness ==
    /\ RunFailed
    /\ ~HasEndTask /\ ~HasStartTask /\ EdgeConflict /\ DuplicateMembership
    /\ err.kind \in MissingEnd

\* the task the walk goes to after the i-th executed task: the target of the
\* path keyed by its exit path, if there is one and it was not visited
HasNext(i) ==
    /\ exitPath[log[i]] \in Conditions(log[i])
    /\ \A j \in 1..i : log[j] # paths[log[i]][exitPath[log[i]]]

NextTask(i) == paths[log[i]][exitPath[log[i]]]

ExecutedOnce == \A i, j \in DOMAIN log : log[i] = log[j] => i = j

\* C24: in one Run every task is executed at most once, and a Run that has
\* entered the loop of execute returns, with nil or with an error, on every
\* graph, cycles and paths from a task to itself included.
C24_RunTerminates ==
    /\ []ExecutedOnce
    /\ (pc = "loop") ~> (pc = "idle")

\* a path from end to itself: the Run returns nil after start and end
C24_Witness ==
    /\ RunSucceeded
    /\ log = << "start", "end" >>
    /\ "end" \in DOMAIN paths /\ ALWAYS \in DOMAIN paths["end"]
    /\ paths["end"][ALWAYS] = "end"
    /\ exitPath["end"] = ALWAYS

\* C25: at every point of every Run the queue of execute holds at most one
\* task, and once a task has been executed the tasks marked visited are
\* those executed and the one in the queue: an executed task enqueues at
\* most one successor.
C25_LinearWalk ==
    /\ Len(q) <= 1
    /\ ExitPathRead => visited = Range(log) \cup Range(q)

\* start has a YES and a NO path to different tasks: one is in the queue
C25_Witness ==
    /\ pc = "loop"
    /\ log = << "start" >>
    /\ Conditions("start") = {YES, NO}
    /\ paths["start"][YES] # paths["start"][NO]
    /\ exitPath["start"] = NO
    /\ q = << paths["start"][NO] >>

\* C26: after a Run that returned nil, Executed() is the set of the tasks
\* whose Execute was invoked in that Run, each of them invoked once, and it
\* holds the first registered StartTask.
C26_VisitedIsExecuted ==
    RunSucceeded =>
        /\ Executed = Range(log)
        /\ ExecutedOnce
        /\ findStartTask.err = NoError
        /\ findStartTask.task \in Executed
        /\ log[1] = findStartTask.task

\* a walk of three tasks, on to an unregistered one past the EndTask
C26_Witness ==
    /\ RunSucceeded
    /\ log = << "start", "end", "cloudy" >>
    /\ Executed = {"start", "end", "cloudy"}
    /\ tasks[1] = "end"

\* the registered tasks of type StartTask, of type EndTask
RegisteredStarts == Registered \cap StartTasks
RegisteredEnds == Registered \cap EndTasks

\* the StartTask registered before every other StartTask
IsFirstStart(t) ==
    \E i \in DOMAIN tasks :
        /\ tasks[i] = t
        /\ t \in StartTasks
        /\ \A j \in 1..(i - 1) : tasks[j] \notin StartTasks

\* C27: a graph with several StartTasks or several EndTasks is not rejected
\* for it: when it has a StartTask and an EndTask and no other fault, Run
\* returns nil, the first task executed is the StartTask registered first,
\* and any other StartTask is executed only as the target of the path
\* followed from the task executed before it.
C27_FirstStartWins ==
    (RunReturned /\ HasStartTask /\ HasEndTask
        /\ ~EdgeConflict /\ ~DuplicateMembership)
    => /\ err = NoError
       /\ IsFirstStart(log[1])
       /\ \A i \in 2..Len(log) :
             log[i] \in StartTasks =>
                HasNext(i - 1) /\ log[i] = NextTask(i - 1)

\* two StartTasks: the one registered first starts the walk and the other
\* is left out, the path from it never followed
C27_Witness ==
    /\ RunSucceeded
    /\ tasks = << "start2", "start", "end" >>
    /\ log = << "start2", "end" >>
    /\ "start" \in DOMAIN paths
    /\ "start" \notin Executed

\* the context passed to the most recent Run
RunContext == hist[Len(hist)].ctx

\* the context of the Run holds what the Execute of the executed tasks, each
\* applied to the result of the one before, made of its values at the call
ThreadedThroughRun ==
    RunCalled => values[RunContext] = Replay(log, hist[Len(hist)].init)

\* while a Run is in the loop no other context changes
OtherContextsUntouched ==
    pc = "loop" =>
        \A c \in DOMAIN values : c # RunContext => values'[c] = values[c]

\* C28: every Execute of a Run receives the context passed to that Run: each
\* task works on the values the tasks before it left there, and no other
\* context is changed by the Run.
C28_SameContextThroughout ==
    []ThreadedThroughRun /\ [][OtherContextsUntouched]_vars

\* a second Run, on a second context: the forecast of each Run is in its own
\* context
C28_Witness ==
    /\ RunSucceeded
    /\ Len(hist) = 2
    /\ hist[1].ctx = 1 /\ hist[2].ctx = 2
    /\ Get(values[1], "Forecast") = "Rain"
    /\ Get(values[2], "Forecast") = "Sun"
    /\ log = << "start", "cloudy", "sun", "end" >>

\* a second Run has been called, on another context than the first
TwoRuns == other.pc # "none" /\ other.ctx # RunContext

\* once the second Run is called the stored context is its context
StoredContextIsLatest == other.pc # "none" => GetContext = other.ctx

\* and the context of the first Run is not changed any more: the tasks the
\* first Run goes on to execute work on the context of the second
FirstContextLeftBehind ==
    TwoRuns => values'[RunContext] = values[RunContext]

\* C29: two Runs on one graph are not isolated.  When Run(ctxB) is called
\* while Run(ctxA) is in its loop, the stored context becomes ctxB for both,
\* so that the tasks the ctxA Run executes from then on are executed
\* against ctxB, and the visited map stored last is that of the Run that
\* returns last, whichever context is stored.
C29_RunsShareStoredContext ==
    []StoredContextIsLatest /\ [][FirstContextLeftBehind]_vars

\* the ctxA Run (Sky Cloudy) executed forecastRain after Run(ctxB) was
\* called: ctxA has no forecast, and the stored visited map, that of the
\* ctxA Run, which returned last, goes with the stored context ctxB
C29_Witness ==
    /\ RunSucceeded
    /\ other.pc = "idle" /\ other.err = NoError
    /\ TwoRuns
    /\ log = << "start", "cloudy", "rain", "end" >>
    /\ other.log = << "start", "cloudy", "sun", "end" >>
    /\ Get(values[RunContext], "Forecast") = ""
    /\ Get(values[other.ctx], "Forecast") = "Rain"
    /\ GetContext = other.ctx
    /\ Executed = Range(log)

\* C30: a Run, whether it returns nil or an error, leaves the task list, the
\* path table and the TaskGroups with their members as they were when it
\* was called; what it changes is the stored context, the visited map, the
\* values of the context and the exit paths of the tasks.
C30_RunKeepsGraph ==
    \A i \in DOMAIN hist : hist[i].graph = << tasks, taskGroups, paths >>

\* a Run over a graph with a path and a TaskGroup with a member has stored
\* its context and its visited map
C30_Witness ==
    /\ RunSucceeded
    /\ tasks = << "start", "end" >>
    /\ Len(taskGroups) = 1 /\ taskGroups[1].tasks = << "start" >>
    /\ Conditions("start") = {ALWAYS}
    /\ GetContext = 1
    /\ Executed = {"start", "end"}

----------------------------------------------------------------------------
\* the target the path table ps holds for (from, condition), NoTask if none
Target(ps, from, condition) ==
    IF from \in DOMAIN ps /\ condition \in DOMAIN ps[from]
    THEN ps[from][condition]
    ELSE NoTask

\* the step gave (from, condition) a target and left every other pair with
\* the target, or the absence of a target, it had
OnlyEntryChanged(from, condition) ==
    /\ Target(paths', from, condition) # NoTask
    /\ \A f \in AllTasks, c \in PathCondition :
          << f, c >> # << from, condition >> =>
              Target(paths', f, c) = Target(paths, f, c)

\* a step that changes the path table is an AddPath call: it changes the
\* entry of one (from, condition) pair and nothing else of the Graphflow
AddPathFrame ==
    paths' # paths =>
        /\ \E from \in AllTasks, condition \in PathCondition :
              OnlyEntryChanged(from, condition)
        /\ UNCHANGED << tasks, taskGroups, context, executed, values,
                        exitPath, pc, q, visited, err, log, hist >>

\* no error has been reported as long as Run has not been called
SilentBeforeRun == ~RunCalled => err = NotRun

\* C31: AddPath validates nothing and has no side effect: a call changes
\* the path-table entry of its (from, condition) pair only, and leaves the
\* other entries, the task list, the groups, the stored context and the
\* visited map as they were, for registered and unregistered tasks and for
\* any combination of conditions; no error is reported before a Run.
C31_AddPathFrame ==
    /\ [][AddPathFrame]_vars
    /\ []SilentBeforeRun

\* an ALWAYS and a YES path were added to a task that is not registered, one
\* of them to itself; the Run that followed reported it
C31_Witness ==
    /\ RunFailed
    /\ "cloudy" \notin Registered
    /\ Conditions("cloudy") = {ALWAYS, YES}
    /\ paths["cloudy"][ALWAYS] = "cloudy"
    /\ err = Error("cannot have an ALWAYS path as well as a YES path",
                   "cloudy")

----------------------------------------------------------------------------
\* C32: AddTask appends its argument to the task list and returns it: after
\* any sequence of builder calls the task list is the sequence of the
\* arguments of the AddTask calls, in call order, a task object or a task
\* type that is registered twice being listed twice, and every call has
\* returned its argument.
C32_TaskListIsCallOrder ==
    /\ Len(tasks) = Len(calls)
    /\ \A i \in DOMAIN calls :
          /\ tasks[i] = calls[i].arg
          /\ calls[i].ret = calls[i].arg

\* two StartTask objects, one of them registered twice, with calls of
\* AddPath and of AddTasks in between
C32_Witness ==
    /\ Len(calls) = 3
    /\ tasks = << "start", "start2", "start" >>
    /\ calls[3].ret = "start"
    /\ paths # EmptyMap
    /\ NumGroupTasks > 0

----------------------------------------------------------------------------
\* the Set calls made on this context with this key
SetsFor(c, key) ==
    {i \in DOMAIN sets : sets[i][1] = c /\ sets[i][2] = key}

\* the most recent of them
LastSetFor(c, key) ==
    CHOOSE i \in SetsFor(c, key) : \A j \in SetsFor(c, key) : j <= i

\* C33: at any time Get(key) on a context returns the value of the most
\* recent Set call with that key on that context, whatever Set calls with
\* other keys or on other contexts came after it, and returns nil when no
\* Set call with that key was made on it, a context just created included.
C33_GetReturnsLastSet ==
    \A c \in DOMAIN values : \A key \in Keys :
        Get(values[c], key) =
            IF SetsFor(c, key) = {}
            THEN Nil
            ELSE sets[LastSetFor(c, key)][3]

\* Sky was set twice and Forecast in between on the first context; the
\* second context was created and has had no Set call
C33_Witness ==
    /\ Len(values) = 2
    /\ sets = << << 1, "Sky", "Cloudy" >>, << 1, "Forecast", "Clear" >>,
                 << 1, "Sky", "Clear" >> >>
    /\ Get(values[1], "Sky") = "Clear"
    /\ Get(values[1], "Forecast") = "Clear"
    /\ Get(values[2], "Sky") = Nil

----------------------------------------------------------------------------
\* the graph g = << tasks, taskGroups, paths >> a Run was called on
GraphHas(g, kind) == \E i \in DOMAIN g[1] : g[1][i] \in kind
GraphConditions(g, t) == IF t \in DOMAIN g[3] THEN DOMAIN g[3][t] ELSE {}

GraphAlwaysConflict(g) ==
    \E t \in DOMAIN g[3] :
        /\ ALWAYS \in GraphConditions(g, t)
        /\ YES \in GraphConditions(g, t) \/ NO \in GraphConditions(g, t)

GraphUnpaired(g) ==
    \E t \in DOMAIN g[3] :
        (YES \in GraphConditions(g, t)) # (NO \in GraphConditions(g, t))

GraphTwoGroups(g) ==
    \E a, b \in DOMAIN g[2] :
        /\ a # b
        /\ \E i \in DOMAIN g[2][a].tasks, j \in DOMAIN g[2][b].tasks :
              g[2][a].tasks[i] = g[2][b].tasks[j]

\* what no builder call can undo, and what a builder call can supply
Permanent(g) == GraphAlwaysConflict(g) \/ GraphTwoGroups(g)
Sound(g) ==
    /\ GraphHas(g, StartTasks) /\ GraphHas(g, EndTasks)
    /\ ~GraphAlwaysConflict(g) /\ ~GraphUnpaired(g) /\ ~GraphTwoGroups(g)

\* the Run of this record returned an error before any Execute
FailedValidation(r) == r.done /\ r.err # NoError /\ r.log = << >>

\* every Run is judged on the graph it is called on: it fails when that
\* graph or the graph of an earlier Run had a permanent fault, and it
\* succeeds when the graph is sound, whatever the Runs before it returned
JudgedOnCurrentGraph ==
    \A j \in DOMAIN hist : hist[j].done =>
        /\ (\E i \in 1..j : Permanent(hist[i].graph)) =>
               FailedValidation(hist[j])
        /\ Sound(hist[j].graph) => hist[j].err = NoError

\* no step takes a (from, condition) pair out of the path table or a task
\* out of a group
NeverRemoved ==
    /\ \A f \in AllTasks, c \in PathCondition :
          Target(paths, f, c) # NoTask => Target(paths', f, c) # NoTask
    /\ \A g \in DOMAIN taskGroups :
          /\ g \in DOMAIN taskGroups'
          /\ \A i \in DOMAIN taskGroups[g].tasks :
                /\ i \in DOMAIN taskGroups'[g].tasks
                /\ taskGroups'[g].tasks[i] = taskGroups[g].tasks[i]

\* C34: validation is done anew on every Run and paths and group members
\* are never removed: once a task has an ALWAYS path with a YES or NO path,
\* or is in two groups, every later Run fails before any Execute whatever
\* is added in between; a Run on a graph that has by now a StartTask, an
\* EndTask and its YES and NO paths paired succeeds although an earlier Run
\* failed for the lack of them.
C34_ValidationFollowsGraph ==
    /\ []JudgedOnCurrentGraph
    /\ [][NeverRemoved]_vars

\* the first Run failed for a YES path without a NO path; the NO path was
\* added and the second Run succeeded (the StartTask, whose exit path is
\* ALWAYS, was the one task it executed)
C34_Witness ==
    /\ Len(hist) = 2
    /\ hist[1].err = Error("has as a YES path but no NO path", "start")
    /\ NO \in GraphConditions(hist[2].graph, "start")
    /\ hist[2].done /\ hist[2].err = NoError
    /\ hist[2].log = << "start" >>

\* a task was in two groups at the first Run; a StartTask was registered
\* afterwards, and the second Run failed like the first
StillFailing ==
    /\ Len(hist) = 2
    /\ GraphTwoGroups(hist[1].graph)
    /\ hist[1].graph # hist[2].graph
    /\ GraphHas(hist[2].graph, StartTasks)
    /\ hist[2].err.kind = "A Task can only exist in one TaskGroup"

\* the first Run failed for want of an EndTask; what was missing was
\* registered and the second Run succeeded
RecoveredFromMissingTasks ==
    /\ Len(hist) = 2
    /\ hist[1].err.kind = "Workflow needs to contain a task of type EndTask"
    /\ hist[2].done /\ hist[2].err = NoError

----------------------------------------------------------------------------
\* C35: when the most recent Run has returned, Executed() is not empty if
\* and only if it returned nil; after a Run that returned an error, from
\* validation or from a task, Executed() is empty, also when an earlier Run
\* of the same Graphflow succeeded.
C35_VisitedIffSucceeded ==
    RunReturned => (Executed # {} <=> err = NoError)

\* the first Run succeeded; a YES path was added to the task that had an
\* ALWAYS path and the second Run failed in validation
C35_Witness ==
    /\ Len(hist) = 2
    /\ hist[1].err = NoError
    /\ hist[1].executed = {"start", "end"}
    /\ RunFailed
    /\ err.kind = "cannot have an ALWAYS path as well as a YES path"
    /\ Executed = {}

----------------------------------------------------------------------------
\* C36: execute does not look a path's target up in the task list: after a
\* Run that returned nil, the target of the path that every executed task
\* selected with its exit path has been executed and is in Executed(),
\* whether or not it was ever passed to AddTask; Executed() need not be a
\* subset of the registered tasks.
C36_UnregisteredTargetsExecuted ==
    RunSucceeded =>
        \A i \in DOMAIN log :
            exitPath[log[i]] \in Conditions(log[i]) =>
                /\ NextTask(i) \in Range(log)
                /\ NextTask(i) \in Executed

\* the ALWAYS path of start leads to isTheSkyCloudy, which was not passed
\* to AddTask: it was executed, it set its exit path, and it is in
\* Executed()
C36_Witness ==
    /\ RunSucceeded
    /\ Registered = {"start", "end"}
    /\ Target(paths, "start", ALWAYS) = "cloudy"
    /\ log = << "start", "cloudy" >>
    /\ exitPath["cloudy"] = YES
    /\ ~(Executed \subseteq Registered)

----------------------------------------------------------------------------
\* the error of the TaskGroup check
GroupError == "A Task can only exist in one TaskGroup"

\* some group holds the same task at two positions
TwiceInOneGroup ==
    \E g \in DOMAIN taskGroups : \E i, j \in DOMAIN taskGroups[g].tasks :
        i # j /\ taskGroups[g].tasks[i] = taskGroups[g].tasks[j]

\* C37: the TaskGroup check compares a task only with the tasks of the
\* other TaskGroup objects: on a graph with an EndTask and no path, Run
\* returns the TaskGroup error exactly when some task is in two distinct
\* groups, whatever the names of the groups are and whether or not the
\* task is registered; a task that is twice in one group is not an error.
C37_OnlyDistinctGroupsClash ==
    RunReturned =>
        (err.kind = GroupError
            <=> (HasEndTask /\ \E t \in AllTasks : InTwoGroups(t)))

\* a task was added twice to one group, and the Run succeeded
C37_Witness ==
    /\ RunSucceeded
    /\ TwiceInOneGroup
    /\ log # << >>

\* two groups of the same name hold a task that is not registered, and the
\* Run failed
SameNameRejected ==
    /\ RunFailed
    /\ err.kind = GroupError
    /\ Len(taskGroups) = 2
    /\ taskGroups[1].name = taskGroups[2].name
    /\ \E t \in AllTasks : InTwoGroups(t) /\ t \notin Registered

====
